---- MODULE Spec2Model ----
(***************************************************************************)
(* A model of geomCalc.py: the quoting pipeline for 2D laser-cut parts.    *)
(* Numbers are exact integers (and exact surds where the code takes a      *)
(* square root); the inputs are restricted to those on which the code's    *)
(* floating-point arithmetic is exact.                                     *)
(***************************************************************************)
EXTENDS Integers, Sequences, FiniteSets, TLC

(***************************************************************************)
(* Bounds of the model.                                                    *)
(***************************************************************************)
\* Largest coordinate of the point grid given to grahams_hull and
\* findMinimumRectangle on their own.
MaxCoord == 2
\* Largest number of points given to grahams_hull on its own.
MaxPts == 5
\* Number of schema files on main's command line.
BatchLen == 2
\* Largest number of circular arcs in a schema of the fixed-layout family.
MaxArcs == 2

(***************************************************************************)
(* Arithmetic helpers.                                                     *)
(***************************************************************************)
Abs(x) == IF x < 0 THEN -x ELSE x

Min(S) == CHOOSE x \in S : \A y \in S : x <= y
Max(S) == CHOOSE x \in S : \A y \in S : y <= x

\* cmp(x, 0)
Sign(x) == IF x > 0 THEN 1 ELSE IF x < 0 THEN -1 ELSE 0

\* Tuple comparison of Python: (x1, y1) < (x2, y2)
LexLess(p, q) == p[1] < q[1] \/ (p[1] = q[1] /\ p[2] < q[2])

RECURSIVE Insert(_, _)
Insert(s, p) ==
    IF s = <<>> THEN <<p>>
    ELSE IF LexLess(p, Head(s)) THEN <<p>> \o s
    ELSE <<Head(s)>> \o Insert(Tail(s), p)

\* sorted(points)
RECURSIVE sorted(_)
sorted(points) ==
    IF points = <<>> THEN <<>>
    ELSE Insert(sorted(Tail(points)), Head(points))

\* reversed(points)
RECURSIVE reversed(_)
reversed(s) == IF s = <<>> THEN <<>> ELSE Append(reversed(Tail(s)), Head(s))

Front(s) == SubSeq(s, 1, Len(s) - 1)

\* (x2-x1)**2 + (y2-y1)**2
Dist2(p, q) == (q[1] - p[1]) * (q[1] - p[1]) + (q[2] - p[2]) * (q[2] - p[2])

Range(s) == {s[i] : i \in 1..Len(s)}

(***************************************************************************)
(* grahams_hull (lines 125-142).                                           *)
(***************************************************************************)
\* turn with a straight line counted as a left turn ("left-or-straight")
turn_or_straight(p, q, r) ==
    IF (q[1] - p[1]) * (r[2] - p[2]) - (r[1] - p[1]) * (q[2] - p[2]) >= 0 THEN 1 ELSE -1

turn(p, q, r) ==
    Sign((q[1] - p[1]) * (r[2] - p[2]) - (r[1] - p[1]) * (q[2] - p[2]))

\* the while loop of keep_left
RECURSIVE keep_left_pop(_, _)
keep_left_pop(hull, r) ==
    IF Len(hull) > 1 /\ turn(hull[Len(hull) - 1], hull[Len(hull)], r) # 1
    THEN keep_left_pop(Front(hull), r)
    ELSE hull

keep_left(hull, r) ==
    LET h == keep_left_pop(hull, r)
    IN IF Len(h) = 0 \/ h[Len(h)] # r THEN Append(h, r) ELSE h

\* reduce(keep_left, points, [])
RECURSIVE reduce_keep_left(_, _)
reduce_keep_left(points, acc) ==
    IF points = <<>> THEN acc
    ELSE reduce_keep_left(Tail(points), keep_left(acc, Head(points)))

grahams_hull(points) ==
    LET s == sorted(points)
        l == reduce_keep_left(s, <<>>)
        u == reduce_keep_left(reversed(s), <<>>)
    IN l \o (IF Len(u) > 2 THEN SubSeq(u, 2, Len(u) - 1) ELSE <<>>)

(***************************************************************************)
(* Exact numbers.  math.sqrt is kept exact: a number is a finite sum of    *)
(* q * sqrt(d) with q a reduced fraction and d square-free, held as the    *)
(* set of its terms <<d, numerator, denominator>>.                         *)
(***************************************************************************)
RECURSIVE GCD(_, _)
GCD(a, b) == IF b = 0 THEN a ELSE GCD(b, a % b)

\* the largest s with s*s dividing n (n > 0): sqrt(n) = s * sqrt(n / (s*s))
SqPart(n) ==
    CHOOSE s \in 1..n : n % (s * s) = 0 /\ \A t \in (s + 1)..n : n % (t * t) # 0

\* the number (n / m) * sqrt(d), d square-free, m > 0
Term(d, n, m) ==
    IF n = 0 THEN {}
    ELSE LET g == GCD(Abs(n), m) IN {<<d, n \div g, m \div g>>}

Coef(x, d) == IF \E t \in x : t[1] = d THEN CHOOSE t \in x : t[1] = d ELSE <<d, 0, 1>>

AddNum(x, y) ==
    UNION {LET a == Coef(x, d)
               b == Coef(y, d)
           IN Term(d, a[2] * b[3] + b[2] * a[3], a[3] * b[3])
           : d \in {t[1] : t \in x \cup y}}

\* (n / m) * x
ScaleNum(x, n, m) == UNION {Term(t[1], n * t[2], m * t[3]) : t \in x}

\* (n / m) / sqrt(l2), l2 > 0
OverSqrt(n, m, l2) ==
    LET s == SqPart(l2) IN Term(l2 \div (s * s), n * s, m * l2)

Zero == {}

(***************************************************************************)
(* Program constants (lines 5-6), as fractions.                            *)
(***************************************************************************)
PADDING_NUM == 1
PADDING_DEN == 10
MATERIAL_COST_NUM == 3
MATERIAL_COST_DEN == 4

(***************************************************************************)
(* findMinimumRectangle (lines 182-204).  A raised exception is a record   *)
(* [exc |-> kind]; a returned value is [exc |-> "none", val |-> value].    *)
(***************************************************************************)
Raise(kind) == [exc |-> kind, val |-> <<>>]
Return(v) == [exc |-> "none", val |-> v]

\* p = hull + [hull[0]]; izip(p, islice(p, 1, None))
HullEdges(hull) ==
    [i \in 1..Len(hull) |-> <<hull[i], hull[(i % Len(hull)) + 1]>>]

\* height_numerator of the loop body: edge e and the point p3
height_numerator(e, p3) ==
    (e[2][2] - e[1][2]) * p3[1] - (e[2][1] - e[1][1]) * p3[2]
      + e[2][1] * e[1][2] - e[2][2] * e[1][1]

\* width_numerator of the loop body: edge e and the pair (p4, p5)
width_numerator(e, p4, p5) ==
    (p5[1] - p4[1]) * (e[2][1] - e[1][1]) + (p5[2] - p4[2]) * (e[2][2] - e[1][2])

segment_length_square(e) == Dist2(e[1], e[2])

\* area = fabs(h * w) / l2: two candidates of one edge share l2
AreaNum(c) == Abs(c[1] * c[2])

\* The entry the loop leaves for edge e: the loop replaces an entry only by
\* one of strictly larger area, so the entry is the first combination, in the
\* order of itertools.product ((edge, p3) outside, (p4, p5) inside), whose
\* area is the largest of the edge; <<>> when no point lies off the edge.
caliper_entry(hull, e) ==
    LET n == Len(hull)
        I3 == {i \in 1..n : hull[i] # e[1] /\ hull[i] # e[2]}
        hn == [i \in 1..n |-> height_numerator(e, hull[i])]
        wn == [j \in 1..(n * n) |->
                 width_numerator(e, hull[((j - 1) \div n) + 1], hull[((j - 1) % n) + 1])]
    IN IF I3 = {} THEN <<>>
       ELSE LET top == Max({Abs(hn[i]) : i \in I3}) * Max({Abs(wn[j]) : j \in 1..(n * n)})
                i3 == Min({i \in I3 : \E j \in 1..(n * n) : Abs(hn[i] * wn[j]) = top})
                j45 == Min({j \in 1..(n * n) : Abs(hn[i3] * wn[j]) = top})
            IN <<hn[i3], wn[j45], segment_length_square(e)>>

\* caliper_sizes: the entries of the dictionary, one per edge that has one
caliper_sizes(hull) ==
    LET es == HullEdges(hull)
    IN {<<es[i], caliper_entry(hull, es[i])>> : i \in 1..Len(hull)}
         \ {<<es[i], <<>>>> : i \in 1..Len(hull)}

\* (area, (h, w, l2)) < (area', (h', w', l2')) as Python compares tuples
ValueLess(c, d) ==
    LET a == AreaNum(c) * d[3]
        b == AreaNum(d) * c[3]
    IN \/ a < b
       \/ a = b /\ c[1] < d[1]
       \/ a = b /\ c[1] = d[1] /\ c[2] < d[2]
       \/ a = b /\ c[1] = d[1] /\ c[2] = d[2] /\ c[3] < d[3]

\* best_caliper with max in the place of min
best_caliper_max(sizes) ==
    LET vals == {s[2] : s \in sizes}
    IN CHOOSE c \in vals : \A d \in vals : ~ValueLess(c, d)

\* caliper_sizes[min(caliper_sizes, key=caliper_sizes.get)][1]
best_caliper(sizes) ==
    LET vals == {s[2] : s \in sizes}
    IN CHOOSE c \in vals : \A d \in vals : ~ValueLess(d, c)

\* (fabs(h)/sqrt(l2) + PADDING) * (fabs(w)/sqrt(l2) + PADDING)
PaddedArea(c) ==
    LET h == Abs(c[1])
        w == Abs(c[2])
        l2 == c[3]
    IN AddNum(Term(1, h * w * PADDING_DEN * PADDING_DEN + PADDING_NUM * PADDING_NUM * l2,
                      l2 * PADDING_DEN * PADDING_DEN),
              OverSqrt(PADDING_NUM * (h + w), PADDING_DEN, l2))

findMinimumRectangle(hull) ==
    LET sizes == caliper_sizes(hull)
    IN IF hull = <<>> THEN Raise("IndexError")
       ELSE IF sizes = {} THEN Raise("ValueError")
       ELSE Return(PaddedArea(best_caliper(sizes)))

(***************************************************************************)
(* The schema.  A file is the text of a JSON object: its members in the    *)
(* order written, where a key may be written twice.  json.load (line 222)  *)
(* makes dictionaries of it, in which a key written twice keeps its last   *)
(* value.  Vertex and edge ids are integers here (the code converts with   *)
(* int() and str() between the JSON keys and the graph's nodes), and a     *)
(* dictionary's keys are iterated in ascending order.                      *)
(***************************************************************************)
\* the keys of a dictionary, as the list .keys() returns
RECURSIVE SetToSeq(_)
SetToSeq(S) == IF S = {} THEN <<>> ELSE <<Min(S)>> \o SetToSeq(S \ {Min(S)})

keys(d) == SetToSeq(DOMAIN d)

\* the dictionary of a JSON object written as the members ms = <<key, value>>...
ObjectOf(ms) ==
    [k \in {ms[i][1] : i \in 1..Len(ms)} |->
        ms[Max({i \in 1..Len(ms) : ms[i][1] = k})][2]]

\* json.load(data_file); a file that is not JSON raises ValueError
json_load(file) ==
    IF ~file.json THEN Raise("ValueError")
    ELSE Return([k \in (IF file.hasV THEN {"Vertices"} ELSE {})
                        \cup (IF file.hasE THEN {"Edges"} ELSE {}) |->
                    IF k = "Vertices" THEN ObjectOf(file.V) ELSE ObjectOf(file.E)])

LineSegment(a, b) ==
    [Type |-> "LineSegment", Vertices |-> <<a, b>>, Center |-> <<0, 0>>, ClockwiseFrom |-> 0]

CircularArc(a, b, c, from) ==
    [Type |-> "CircularArc", Vertices |-> <<a, b>>, Center |-> c, ClockwiseFrom |-> from]

\* (schema["Vertices"][str(p)]["Position"]["X"], ...["Y"])
Position(schema, v) == schema["Vertices"][v]

(***************************************************************************)
(* createGraph (lines 15-20): an undirected simple graph, nx.Graph.        *)
(***************************************************************************)
createGraph(schema) ==
    LET es == {{schema["Edges"][e].Vertices[1], schema["Edges"][e].Vertices[2]}
                 : e \in DOMAIN schema["Edges"]}
    IN [nodes |-> DOMAIN schema["Vertices"] \cup UNION es, edges |-> es]

\* G[z]: the neighbours of z (z itself for a self-loop)
Nbrs(g, z) == {n \in g.nodes : {z, n} \in g.edges}

(***************************************************************************)
(* nx.cycle_basis, called at line 36: the spanning-tree walk of networkx.  *)
(***************************************************************************)
\* the while loop that walks pred from z back to a node of pn
RECURSIVE cycle_walk(_, _, _, _)
cycle_walk(cycle, p, pn, pred) ==
    IF p \in pn THEN Append(cycle, p)
    ELSE cycle_walk(Append(cycle, p), pred[p], pn, pred)

\* for nbr in G[z]; st = [stack, pred, used, cycles]
RECURSIVE cycle_nbrs(_, _, _, _)
cycle_nbrs(z, zused, nbrs, st) ==
    IF nbrs = <<>> THEN st
    ELSE LET nbr == Head(nbrs) IN
         IF nbr \notin DOMAIN st.used
         THEN cycle_nbrs(z, zused, Tail(nbrs),
                  [st EXCEPT !.pred = (nbr :> z) @@ st.pred,
                             !.stack = Append(st.stack, nbr),
                             !.used = (nbr :> {z}) @@ st.used])
         ELSE IF nbr = z
         THEN cycle_nbrs(z, zused, Tail(nbrs),
                  [st EXCEPT !.cycles = Append(st.cycles, <<z>>)])
         ELSE IF nbr \notin zused
         THEN cycle_nbrs(z, zused, Tail(nbrs),
                  [st EXCEPT !.cycles = Append(st.cycles,
                                 cycle_walk(<<nbr, z>>, st.pred[z], st.used[nbr], st.pred)),
                             !.used = (nbr :> (st.used[nbr] \cup {z})) @@ st.used])
         ELSE cycle_nbrs(z, zused, Tail(nbrs), st)

\* while stack: z = stack.pop() ...
RECURSIVE cycle_stack(_, _)
cycle_stack(g, st) ==
    IF st.stack = <<>> THEN st
    ELSE LET z == st.stack[Len(st.stack)]
         IN cycle_stack(g, cycle_nbrs(z, st.used[z], SetToSeq(Nbrs(g, z)),
                                      [st EXCEPT !.stack = Front(st.stack)]))

\* while gnodes: one connected component per round
RECURSIVE cycle_components(_, _, _)
cycle_components(g, gnodes, cycles) ==
    IF gnodes = {} THEN cycles
    ELSE LET root == Min(gnodes)
             st == cycle_stack(g, [stack |-> <<root>>, pred |-> (root :> root),
                                   used |-> (root :> {}), cycles |-> cycles])
         IN cycle_components(g, gnodes \ DOMAIN st.pred, st.cycles)

cycle_basis(g) == cycle_components(g, g.nodes, <<>>)

(***************************************************************************)
(* findPath (lines 34-40) and validateSchema (lines 42-51).                *)
(***************************************************************************)
\* findPath asking for more than one cycle
findPath_several(schema_graph) ==
    LET cycles == cycle_basis(schema_graph)
    IN IF Len(cycles) > 1 THEN Return(cycles) ELSE Raise("NetworkXNoCycle")

findPath(schema_graph) ==
    LET cycles == cycle_basis(schema_graph)
    IN IF Len(cycles) > 0 THEN Return(cycles) ELSE Raise("NetworkXNoCycle")

validateSchema(schema) ==
    IF "Edges" \notin DOMAIN schema \/ "Vertices" \notin DOMAIN schema
    THEN Raise("ValueError")
    ELSE IF \/ Len(keys(schema["Edges"])) # Cardinality(Range(keys(schema["Edges"])))
            \/ Len(keys(schema["Vertices"])) # Cardinality(Range(keys(schema["Vertices"])))
    THEN Raise("ValueError")
    ELSE LET g == createGraph(schema)
             r == findPath(g)
         IN IF r.exc # "none" THEN r ELSE Return([path |-> r.val, graph |-> g])

(***************************************************************************)
(* computeValues (lines 53-109).  math.sqrt is exact on the schemas of     *)
(* this model: Isqrt has a value only for a perfect square.                *)
(***************************************************************************)
Isqrt(n) == CHOOSE k \in 0..n : k * k = n

IsSquare(n) == \E k \in 0..n : k * k = n

\* the entry of values_dict for one edge, or the exception its arithmetic raises
edgeValues(schema, edge) ==
    IF edge.Type = "LineSegment"
    THEN IF edge.Vertices[1] \notin DOMAIN schema["Vertices"]
            \/ edge.Vertices[2] \notin DOMAIN schema["Vertices"]
         THEN Raise("KeyError")
         ELSE Return([start_id |-> edge.Vertices[1], finish_id |-> edge.Vertices[2],
                      dist2 |-> Dist2(Position(schema, edge.Vertices[1]),
                                      Position(schema, edge.Vertices[2])),
                      radius |-> 0, chord_length |-> 0, sector_height2 |-> 0,
                      box_points |-> <<>>])
    ELSE LET start_id == edge.ClockwiseFrom
             others == SelectSeq(edge.Vertices, LAMBDA v : v # start_id)
         IN IF others = <<>> THEN Raise("IndexError")
            ELSE IF start_id \notin DOMAIN schema["Vertices"]
                    \/ others[1] \notin DOMAIN schema["Vertices"]
            THEN Raise("KeyError")
            ELSE LET finish_id == others[1]
                     start_coords == Position(schema, start_id)
                     finish_coords == Position(schema, finish_id)
                     radius2 == Dist2(edge.Center, start_coords)
                     dx == finish_coords[1] - start_coords[1]
                     dy == finish_coords[2] - start_coords[2]
                     chord2 == dx * dx + dy * dy
                 IN \* chord_length / (2 * radius)
                    IF radius2 = 0 THEN Raise("ZeroDivisionError")
                    \* math.asin of a value above 1
                    ELSE IF chord2 > 4 * radius2 THEN Raise("ValueError")
                    \* sector_height * dy / chord_length
                    ELSE IF chord2 = 0 THEN Raise("ZeroDivisionError")
                    ELSE LET radius == Isqrt(radius2)
                             chord_length == Isqrt(chord2)
                             \* 2 * (radius - sqrt(radius**2 - chord_length**2 / 4))
                             sector_height2 == 2 * radius - Isqrt(4 * radius2 - chord2)
                             ox == (sector_height2 * dx) \div (2 * chord_length)
                             oy == (sector_height2 * dy) \div (2 * chord_length)
                         IN Return([start_id |-> start_id, finish_id |-> finish_id,
                                    dist2 |-> 0, radius |-> radius,
                                    chord_length |-> chord_length,
                                    sector_height2 |-> sector_height2,
                                    box_points |->
                                      << <<start_coords[1] + oy, start_coords[2] - ox>>,
                                         <<start_coords[1] - oy, start_coords[2] + ox>>,
                                         <<finish_coords[1] - oy, finish_coords[2] + ox>>,
                                         <<finish_coords[1] + oy, finish_coords[2] - ox>> >>])

\* computeValues reporting every failure of its arithmetic as a ValueError
computeValues_ValueError(schema) ==
    LET ids == DOMAIN schema["Edges"]
        bad == {e \in ids : edgeValues(schema, schema["Edges"][e]).exc # "none"}
    IN IF bad # {} THEN Raise("ValueError")
       ELSE Return([e \in ids |-> edgeValues(schema, schema["Edges"][e]).val])

\* for edge_id in schema["Edges"].keys(): the first exception ends the loop
computeValues(schema) ==
    LET ids == DOMAIN schema["Edges"]
        bad == {e \in ids : edgeValues(schema, schema["Edges"][e]).exc # "none"}
    IN IF bad # {} THEN Raise(edgeValues(schema, schema["Edges"][Min(bad)]).exc)
       ELSE Return([e \in ids |-> edgeValues(schema, schema["Edges"][e]).val])

(***************************************************************************)
(* pointLookup (lines 22-26), edgeLookup (lines 28-32).                    *)
(***************************************************************************)
pointLookup(xy, schema) ==
    Min({v \in DOMAIN schema["Vertices"] : Position(schema, v) = xy})

edgeLookup(x, y, schema) ==
    Min({e \in DOMAIN schema["Edges"] :
            /\ x \in Range(schema["Edges"][e].Vertices)
            /\ y \in Range(schema["Edges"][e].Vertices)})

(***************************************************************************)
(* computeInnerHull (lines 144-152).                                       *)
(***************************************************************************)
PathCoords(schema, path) == [i \in 1..Len(path) |-> Position(schema, path[i])]

\* computeInnerHull leaving out the last vertex of each cycle
computeInnerHull_short(schema, cycles) ==
    [c \in 1..Len(cycles) |->
        LET h == grahams_hull(PathCoords(schema, Front(cycles[c])))
        IN [i \in 1..Len(h) |-> pointLookup(h[i], schema)]]

computeInnerHull(schema, cycles) ==
    [c \in 1..Len(cycles) |->
        LET h == grahams_hull(PathCoords(schema, cycles[c]))
        IN [i \in 1..Len(h) |-> pointLookup(h[i], schema)]]

(***************************************************************************)
(* nx.shortest_path, called at line 171.  Which of several shortest paths  *)
(* it returns depends on the order of the graph's adjacency dictionaries:  *)
(* every shortest path is a possible result.                               *)
(***************************************************************************)
RECURSIVE SimplePaths(_, _, _)
SimplePaths(g, p, b) ==
    IF p[Len(p)] = b THEN {p}
    ELSE UNION {SimplePaths(g, Append(p, n), b) : n \in Nbrs(g, p[Len(p)]) \ Range(p)}

ShortestPaths(g, a, b) ==
    LET all == SimplePaths(g, <<a>>, b)
    IN {p \in all : \A q \in all : Len(p) <= Len(q)}

\* the (a, b) of "for a,b in izip(points, islice(points, 1, None))", all hulls
HullPairs(initial_hull) ==
    UNION {{<<initial_hull[c][i], initial_hull[c][(i % Len(initial_hull[c])) + 1]>>
              : i \in 1..Len(initial_hull[c])} : c \in 1..Len(initial_hull)}

\* One result of shortest_path for every pair asked; <<>> stands for the
\* NetworkXNoPath it raises when there is no path.
RECURSIVE PathPicks(_, _)
PathPicks(g, Q) ==
    IF Q = {} THEN {<<>>}
    ELSE LET q == CHOOSE q \in Q : TRUE
             sps == ShortestPaths(g, q[1], q[2])
         IN {(q :> p) @@ f : p \in (IF sps = {} THEN {<<>>} ELSE sps),
                             f \in PathPicks(g, Q \ {q})}

(***************************************************************************)
(* computeConvexHull (lines 154-180); sp gives shortest_path's results.    *)
(***************************************************************************)
HasArc(schema) ==
    \E e \in DOMAIN schema["Edges"] : schema["Edges"][e].Type = "CircularArc"

Index(s, x) == Min({i \in 1..Len(s) : s[i] = x})

\* arcs_on_path, then extrusions, for one path
arcs_on_path(schema, path) ==
    SelectSeq([i \in 1..(Len(path) - 1) |-> edgeLookup(path[i], path[i + 1], schema)],
              LAMBDA arc : schema["Edges"][arc].Type = "CircularArc")

\* extrusions with the comparison the other way round
extrusions_before(schema, values_dict, path) ==
    SelectSeq(arcs_on_path(schema, path),
              LAMBDA x : Index(path, values_dict[x].start_id)
                           < Index(path, values_dict[x].finish_id))

extrusions(schema, values_dict, path) ==
    SelectSeq(arcs_on_path(schema, path),
              LAMBDA x : Index(path, values_dict[x].start_id)
                           > Index(path, values_dict[x].finish_id))

RECURSIVE extend_box_points(_, _, _)
extend_box_points(new_hull, values_dict, xs) ==
    IF xs = <<>> THEN new_hull
    ELSE extend_box_points(new_hull \o values_dict[Head(xs)].box_points,
                           values_dict, Tail(xs))

\* the loop over the pairs of one hull, from pair i on
RECURSIVE expand_hull(_, _, _, _, _, _)
expand_hull(schema, values_dict, sp, hull, i, new_hull) ==
    IF i > Len(hull) THEN new_hull
    ELSE expand_hull(schema, values_dict, sp, hull, i + 1,
             extend_box_points(new_hull, values_dict,
                 extrusions(schema, values_dict,
                            sp[<<hull[i], hull[(i % Len(hull)) + 1]>>])))

computeConvexHull(schema, cycles, values_dict, sp) ==
    LET initial_hull == computeInnerHull(schema, cycles)
    IN IF ~HasArc(schema)
       THEN Return([c \in 1..Len(initial_hull) |-> PathCoords(schema, initial_hull[c])])
       ELSE IF \E q \in DOMAIN sp : sp[q] = <<>> THEN Raise("NetworkXNoPath")
       ELSE Return([c \in 1..Len(initial_hull) |->
                grahams_hull(expand_hull(schema, values_dict, sp, initial_hull[c], 1,
                                         PathCoords(schema, initial_hull[c])))])

(***************************************************************************)
(* rotateCalipers (lines 206-215).                                         *)
(***************************************************************************)
RECURSIVE sum_regions(_, _)
sum_regions(areas, price) ==
    IF areas = <<>> THEN price
    ELSE sum_regions(Tail(areas),
             AddNum(price, ScaleNum(Head(areas), MATERIAL_COST_NUM, MATERIAL_COST_DEN)))

\* hulls: what computeConvexHull returned
priceOfHulls(hulls) ==
    LET areas == [c \in 1..Len(hulls) |-> findMinimumRectangle(hulls[c])]
        bad == {c \in 1..Len(hulls) : areas[c].exc # "none"}
    IN IF bad # {} THEN Raise(areas[Min(bad)].exc)
       ELSE Return(sum_regions([c \in 1..Len(hulls) |-> areas[c].val], Zero))

rotateCalipers(schema, cycles, values_dict, sp) ==
    LET hulls == computeConvexHull(schema, cycles, values_dict, sp)
    IN IF hulls.exc # "none" THEN hulls ELSE priceOfHulls(hulls.val)

(***************************************************************************)
(* The schema files main is given.                                         *)
(*                                                                         *)
(* Vertex coordinates are even and an arc is one whose square roots the     *)
(* code computes exactly (or whose arithmetic raises): its chord is        *)
(* parallel to an axis and its centre is at distance chord/2 from its      *)
(* start, or its endpoints coincide, or its chord is longer than twice the *)
(* radius.  Every edge joins two vertices of the schema, an arc's          *)
(* ClockwiseFrom is one of its endpoints, and no two edges join the same   *)
(* pair of vertices.                                                       *)
(***************************************************************************)
\* Layout of the family with free edges: the corners of a square.
Layout == << <<0, 0>>, <<2, 0>>, <<2, 2>>, <<0, 2>> >>

\* Positions of the family with free positions.
Grid == {<<0, 0>>, <<2, 0>>, <<4, 0>>, <<0, 2>>, <<2, 2>>}

Midpoint(p, q) == <<(p[1] + q[1]) \div 2, (p[2] + q[2]) \div 2>>

\* an arc from vertex a (at p) to b (at q) whose arithmetic the model decides
ArcDecided(p, q, c) ==
    LET r2 == Dist2(c, p)
        c2 == Dist2(p, q)
    IN \/ r2 = 0
       \/ c2 = 0
       \/ c2 > 4 * r2
       \/ /\ 4 * r2 = c2
          /\ IsSquare(r2)
          /\ p[1] = q[1] \/ p[2] = q[2]

\* the centres tried for an arc clockwise from p to q
Centres(p, q) == {c \in {Midpoint(p, q), <<p[1], p[2] + 1>>} : ArcDecided(p, q, c)}

\* the edges (lines and arcs) that may join a and b, given the positions
EdgesOn(pos, a, b) ==
    {LineSegment(a, b)}
      \cup {CircularArc(a, b, c, a) : c \in Centres(pos[a], pos[b])}
      \cup {CircularArc(a, b, c, b) : c \in Centres(pos[b], pos[a])}

Pairs(n) == {pr \in (1..n) \X (1..n) : pr[1] < pr[2]}

\* a set of pairs as a list, in lexicographic order
RECURSIVE PairSeq(_)
PairSeq(P) ==
    IF P = {} THEN <<>>
    ELSE LET m == CHOOSE x \in P : \A y \in P : x = y \/ LexLess(x, y)
         IN <<m>> \o PairSeq(P \ {m})

\* the members "id: value" of an object, ids 1, 2, ... in the order written
Members(vals) == [i \in 1..Len(vals) |-> <<i, vals[i]>>]

File(vs, es) == [json |-> TRUE, hasV |-> TRUE, hasE |-> TRUE, V |-> vs, E |-> es]

\* every way to give each pair of ps (a sequence) an edge, with at most k arcs
RECURSIVE EdgeLists(_, _, _)
EdgeLists(pos, ps, k) ==
    IF ps = <<>> THEN {<<>>}
    ELSE UNION {{<<e>> \o rest
                   : rest \in EdgeLists(pos, Tail(ps),
                                        IF e.Type = "CircularArc" THEN k - 1 ELSE k)}
                 : e \in {e \in EdgesOn(pos, Head(ps)[1], Head(ps)[2])
                            : e.Type = "LineSegment" \/ k > 0}}

\* Fixed layout, any set of edges, at most MaxArcs arcs (centre: the midpoint).
TopologyFiles ==
    UNION {UNION {{File(Members(SubSeq(Layout, 1, n)), Members(es))
                     : es \in {l \in EdgeLists(Layout, PairSeq(P), MaxArcs)
                                 : \A i \in 1..Len(l) :
                                     l[i].Center = Midpoint(Layout[l[i].Vertices[1]],
                                                            Layout[l[i].Vertices[2]])
                                     \/ l[i].Type = "LineSegment"}}
                   : P \in SUBSET Pairs(n)}
            : n \in 1..Len(Layout)}

\* A member written twice: vertex 1 again, at the place of vertex 2, or edge 1
\* again, as a line segment.
TwiceFiles ==
    {[f EXCEPT !.V = Append(f.V, <<1, f.V[2][2]>>)]
        : f \in {f \in TopologyFiles : Len(f.V) >= 2}}
      \cup {[f EXCEPT !.E = Append(f.E, <<1, LineSegment(f.E[1][2].Vertices[1],
                                                          f.E[1][2].Vertices[2])>>)]
              : f \in {f \in TopologyFiles : Len(f.E) >= 1}}

\* A top-level key left out.
MissingFiles ==
    UNION {{[f EXCEPT !.hasV = FALSE, !.V = <<>>], [f EXCEPT !.hasE = FALSE, !.E = <<>>],
            [f EXCEPT !.hasV = FALSE, !.V = <<>>, !.hasE = FALSE, !.E = <<>>]}
            : f \in {f \in TopologyFiles : Len(f.V) <= 2}}

\* the ring 1-2-...-n-1
Ring(n) == [i \in 1..n |-> IF i < n THEN <<i, i + 1>> ELSE <<1, n>>]

\* Free positions, a ring of line segments whose first edge may be an arc,
\* and for four vertices the chord 1-3 or not.
GeometryFiles ==
    UNION {UNION {{File(Members(pos), Members(<<e>> \o rest))
                     : e \in EdgesOn(pos, 1, 2),
                       rest \in {[i \in 1..(n - 1) |-> LineSegment(Ring(n)[i + 1][1],
                                                                   Ring(n)[i + 1][2])]}
                                  \cup (IF n = 4
                                        THEN {[i \in 1..n |->
                                                 IF i < n
                                                 THEN LineSegment(Ring(n)[i + 1][1],
                                                                  Ring(n)[i + 1][2])
                                                 ELSE LineSegment(1, 3)]}
                                        ELSE {})}
                   : pos \in [1..n -> Grid]}
            : n \in 3..4}

NotJson == [json |-> FALSE, hasV |-> FALSE, hasE |-> FALSE, V |-> <<>>, E |-> <<>>]

\* every arc of the file, as json.load reads it, is one the model decides
Decided(f) ==
    LET vs == ObjectOf(f.V)
        es == ObjectOf(f.E)
    IN \A e \in DOMAIN es :
         es[e].Type = "CircularArc" /\ f.hasV =>
           LET a == es[e].ClockwiseFrom
               b == CHOOSE v \in Range(es[e].Vertices) : v # a
           IN ArcDecided(vs[a], vs[b], es[e].Center)

Files ==
    {f \in TopologyFiles \cup TwiceFiles \cup MissingFiles \cup GeometryFiles : Decided(f)}
      \cup {NotJson}

(***************************************************************************)
(* main (lines 217-227).                                                   *)
(***************************************************************************)
VARIABLES
    idx,          \* position in schemas of the schema being processed
    pc,           \* where main is
    file,         \* the text of the file opened
    data,         \* json.load's result
    path,         \* validateSchema's first result: the cycles
    graph,        \* validateSchema's second result
    values,       \* computeValues's result
    initial_hull, \* computeInnerHull's result inside computeConvexHull
    routes,       \* the results of shortest_path inside computeConvexHull
    final_hull,   \* computeConvexHull's result
    price,        \* rotateCalipers's result
    exc,          \* the exception raised, and the call that raised it
    out,          \* the line printed for this schema
    printed,      \* number of lines printed so far
    points,       \* grahams_hull on its own: its argument
    hull,         \* grahams_hull on its own: its result
    rect          \* findMinimumRectangle on its own: its dictionary and result

vars == <<idx, pc, file, data, path, graph, values, initial_hull, routes,
          final_hull, price, exc, out, printed, points, hull, rect>>

schemaVars == <<file, data, path, graph, values, initial_hull, routes, final_hull,
                price, exc, out>>

pureVars == <<points, hull, rect>>

None == <<>>

NoExc == [kind |-> "none", at |-> "none"]

Fresh ==
    /\ file = None /\ data = None /\ path = None /\ graph = None /\ values = None
    /\ initial_hull = None /\ routes = None /\ final_hull = None /\ price = None
    /\ exc = NoExc /\ out = "none"

Init ==
    /\ idx = 1
    /\ pc = "loop"
    /\ printed = 0
    /\ Fresh
    /\ points = None /\ hull = None /\ rect = None

\* for s in schemas: with open(s) as data_file: data = json.load(data_file)
JsonLoad ==
    /\ pc = "loop"
    /\ idx <= BatchLen
    /\ \E f \in Files :
         LET r == json_load(f) IN
         /\ file' = f
         /\ IF r.exc = "none"
            THEN data' = r.val /\ pc' = "loaded" /\ exc' = exc
            ELSE data' = data /\ pc' = "raised" /\ exc' = [kind |-> r.exc, at |-> "json.load"]
    /\ UNCHANGED <<idx, path, graph, values, initial_hull, routes, final_hull, price,
                   out, printed, pureVars>>

\* path, graph = validateSchema(s, data)
ValidateSchema ==
    /\ pc = "loaded"
    /\ LET r == validateSchema(data) IN
       IF r.exc = "none"
       THEN /\ path' = r.val.path /\ graph' = r.val.graph
            /\ pc' = "validated" /\ exc' = exc
       ELSE /\ pc' = "raised" /\ exc' = [kind |-> r.exc, at |-> "validateSchema"]
            /\ UNCHANGED <<path, graph>>
    /\ UNCHANGED <<idx, file, data, values, initial_hull, routes, final_hull, price,
                   out, printed, pureVars>>

\* values = computeValues(data)
ComputeValues ==
    /\ pc = "validated"
    /\ LET r == computeValues(data) IN
       IF r.exc = "none"
       THEN values' = r.val /\ pc' = "valued" /\ exc' = exc
       ELSE values' = values /\ pc' = "raised"
            /\ exc' = [kind |-> r.exc, at |-> "computeValues"]
    /\ UNCHANGED <<idx, file, data, path, graph, initial_hull, routes, final_hull, price,
                   out, printed, pureVars>>

\* print s, costFormat(arcLength(data, values) + rotateCalipers(data, graph, values))
\* arcLength raises nothing once computeValues has returned; the cut cost it
\* adds is not modelled.
Quote ==
    /\ pc = "valued"
    /\ LET ih == computeInnerHull(data, path) IN
       \E sp \in PathPicks(graph, IF HasArc(data) THEN HullPairs(ih) ELSE {}) :
         LET hs == computeConvexHull(data, path, values, sp)
             r == rotateCalipers(data, path, values, sp)
         IN /\ initial_hull' = ih
            /\ routes' = sp
            /\ final_hull' = IF hs.exc = "none" THEN hs.val ELSE final_hull
            /\ IF r.exc = "none"
               THEN /\ price' = r.val /\ out' = "price" /\ printed' = printed + 1
                    /\ pc' = "printed" /\ exc' = exc
               ELSE /\ pc' = "raised" /\ exc' = [kind |-> r.exc, at |-> "rotateCalipers"]
                    /\ UNCHANGED <<price, out, printed>>
    /\ UNCHANGED <<idx, file, data, path, graph, values, pureVars>>

\* except ValueError: print s + " is not in valid JSON format."
ExceptValueError ==
    /\ pc = "raised"
    /\ exc.kind = "ValueError"
    /\ out' = "invalid"
    /\ printed' = printed + 1
    /\ pc' = "printed"
    /\ UNCHANGED <<idx, file, data, path, graph, values, initial_hull, routes,
                   final_hull, price, exc, pureVars>>

\* any other exception leaves main: the program ends with a traceback
Propagate ==
    /\ pc = "raised"
    /\ exc.kind # "ValueError"
    /\ pc' = "traceback"
    /\ UNCHANGED <<idx, schemaVars, printed, pureVars>>

\* the next round of the for loop
NextSchema ==
    /\ pc = "printed"
    /\ idx' = idx + 1
    /\ pc' = "loop"
    /\ file' = None /\ data' = None /\ path' = None /\ graph' = None
    /\ values' = None /\ initial_hull' = None /\ routes' = None
    /\ final_hull' = None /\ price' = None /\ exc' = NoExc /\ out' = "none"
    /\ UNCHANGED <<printed, pureVars>>

\* the for loop is exhausted: main returns
Exit ==
    /\ pc = "loop"
    /\ idx > BatchLen
    /\ pc' = "exit"
    /\ UNCHANGED <<idx, schemaVars, printed, pureVars>>

Next ==
    \/ JsonLoad
    \/ ValidateSchema
    \/ ComputeValues
    \/ Quote
    \/ ExceptValueError
    \/ Propagate
    \/ NextSchema
    \/ Exit

Spec == Init /\ [][Next]_vars

(***************************************************************************)
(* grahams_hull and findMinimumRectangle on their own: every set of at     *)
(* most MaxPts points of the grid 0..MaxCoord x 0..MaxCoord, given as a    *)
(* list in descending order.                                               *)
(***************************************************************************)
HullGrid == (0..MaxCoord) \X (0..MaxCoord)

\* a set of points as a list, in ascending lexicographic order
RECURSIVE PointSeq(_)
PointSeq(S) ==
    IF S = {} THEN <<>>
    ELSE LET m == CHOOSE x \in S : \A y \in S : x = y \/ LexLess(x, y)
         IN <<m>> \o PointSeq(S \ {m})

InitHull ==
    /\ idx = 1
    /\ pc = "points"
    /\ printed = 0
    /\ Fresh
    /\ points \in {reversed(PointSeq(S)) : S \in {S \in SUBSET HullGrid : Cardinality(S) <= MaxPts}}
    /\ hull = None
    /\ rect = None

\* hull = grahams_hull(points)
GrahamsHull ==
    /\ pc = "points"
    /\ hull' = grahams_hull(points)
    /\ pc' = "hull"
    /\ UNCHANGED <<idx, schemaVars, printed, points, rect>>

\* findMinimumRectangle(hull): the dictionary it builds, the entry it selects
\* and what it returns or raises
FindMinimumRectangle ==
    /\ pc = "hull"
    /\ rect' = [sizes |-> caliper_sizes(hull),
                best |-> IF caliper_sizes(hull) = {} THEN None
                         ELSE best_caliper(caliper_sizes(hull)),
                ret |-> findMinimumRectangle(hull)]
    /\ pc' = "rect"
    /\ UNCHANGED <<idx, schemaVars, printed, points, hull>>

NextHull ==
    \/ GrahamsHull
    \/ FindMinimumRectangle

SpecHull == InitHull /\ [][NextHull]_vars

(***************************************************************************)
(* Geometry used to state the properties.                                  *)
(***************************************************************************)
\* twice the signed area of the triangle a, b, c: positive for a left turn
Cross(a, b, c) == (b[1] - a[1]) * (c[2] - a[2]) - (b[2] - a[2]) * (c[1] - a[1])

\* p lies on the closed segment a-b
OnSegment(p, a, b) ==
    /\ Cross(a, b, p) = 0
    /\ (p[1] - a[1]) * (p[1] - b[1]) + (p[2] - a[2]) * (p[2] - b[2]) <= 0

\* p lies in the closed triangle a, b, c, which is not flat
InTriangle(p, a, b, c) ==
    /\ Cross(a, b, c) # 0
    /\ \/ Cross(a, b, p) >= 0 /\ Cross(b, c, p) >= 0 /\ Cross(c, a, p) >= 0
       \/ Cross(a, b, p) <= 0 /\ Cross(b, c, p) <= 0 /\ Cross(c, a, p) <= 0

\* p is in the convex hull of the set T
InConv(p, T) ==
    \/ p \in T
    \/ \E a, b \in T : OnSegment(p, a, b)
    \/ \E a, b, c \in T : InTriangle(p, a, b, c)

\* the extreme points of S: the vertices of its convex hull
Extreme(S) == {p \in S : ~InConv(p, S \ {p})}

\* p lies inside or on the polygon, segment or point h (a list of points,
\* counter-clockwise when it has three or more)
InOrOn(p, h) ==
    IF Len(h) = 0 THEN FALSE
    ELSE IF Len(h) = 1 THEN p = h[1]
    ELSE IF Len(h) = 2 THEN OnSegment(p, h[1], h[2])
    ELSE \A i \in 1..Len(h) : Cross(h[i], h[(i % Len(h)) + 1], p) >= 0

\* twice the area of the polygon h (shoelace)
RECURSIVE Shoelace(_, _)
Shoelace(h, i) ==
    IF i > Len(h) THEN 0
    ELSE h[i][1] * h[(i % Len(h)) + 1][2] - h[(i % Len(h)) + 1][1] * h[i][2]
           + Shoelace(h, i + 1)

TwiceArea(h) == Abs(Shoelace(h, 1))

(***************************************************************************)
(* C9.  grahams_hull returns exactly the extreme points of its input, each *)
(* once, counter-clockwise from the lexicographically smallest point;      *)
(* three consecutive points always turn strictly left, a point between two *)
(* hull vertices on a line is not returned, and the hull of the result is  *)
(* the result.                                                             *)
(***************************************************************************)
C9_GrahamsHull ==
    pc \in {"hull", "rect"} =>
      LET S == Range(points)
          n == Len(hull)
      IN /\ Range(hull) = Extreme(S)
         /\ Cardinality(Range(hull)) = n
         /\ n > 0 => \A p \in S : p = hull[1] \/ LexLess(hull[1], p)
         /\ n >= 3 =>
              \A i \in 1..n : Cross(hull[i], hull[(i % n) + 1], hull[((i + 1) % n) + 1]) > 0
         /\ \A p \in S : (\E a, b \in S \ {p} : OnSegment(p, a, b)) => p \notin Range(hull)
         /\ grahams_hull(hull) = hull

\* a hull edge with a point of the input on it, between its ends, was built
C9_Witness ==
    /\ pc = "hull"
    /\ Len(hull) >= 4
    /\ \E p \in Range(points) : \E i \in 1..Len(hull) :
         /\ p \notin Range(hull)
         /\ OnSegment(p, hull[i], hull[(i % Len(hull)) + 1])

(***************************************************************************)
(* C5.  On a hull with three or more points that are not on a line, the    *)
(* rectangle findMinimumRectangle selects is the bounding rectangle of the *)
(* hull aligned to one hull edge; its area is at least the hull's area; no *)
(* bounding rectangle aligned to another hull edge is smaller; and the     *)
(* value returned is (height + PADDING) * (width + PADDING).               *)
(***************************************************************************)
\* the bounding rectangle of h aligned to edge e: height and width, both
\* times the length of e
BoxHeight(h, e) == Max({Abs(Cross(e[1], e[2], h[i])) : i \in 1..Len(h)})

Along(e, p) == (p[1] - e[1][1]) * (e[2][1] - e[1][1]) + (p[2] - e[1][2]) * (e[2][2] - e[1][2])

BoxWidth(h, e) ==
    Max({Along(e, h[i]) : i \in 1..Len(h)}) - Min({Along(e, h[i]) : i \in 1..Len(h)})

C5_MinimumRectangle ==
    pc = "rect" /\ Len(hull) >= 3 =>
      LET b == rect.best
          E == Range(HullEdges(hull))
          height == Abs(b[1])
          width == Abs(b[2])
      IN /\ rect.ret.exc = "none"
         /\ \E e \in E : /\ b[3] = Dist2(e[1], e[2])
                         /\ height = BoxHeight(hull, e)
                         /\ width = BoxWidth(hull, e)
         \* area of the rectangle = height * width / |e|^2 >= area of the hull
         /\ 2 * height * width >= TwiceArea(hull) * b[3]
         /\ \A e \in E : height * width * Dist2(e[1], e[2])
                           <= BoxHeight(hull, e) * BoxWidth(hull, e) * b[3]
         \* h*w/l2 + PADDING*(h + w)/sqrt(l2) + PADDING^2
         /\ rect.ret.val =
              AddNum(AddNum(Term(1, height * width, b[3]),
                            OverSqrt(PADDING_NUM * height, PADDING_DEN, b[3])),
                     AddNum(OverSqrt(PADDING_NUM * width, PADDING_DEN, b[3]),
                            Term(1, PADDING_NUM * PADDING_NUM, PADDING_DEN * PADDING_DEN)))

\* a hull whose edges give bounding rectangles of different areas
C5_Witness ==
    /\ pc = "rect"
    /\ Len(hull) >= 3
    /\ rect.ret.exc = "none"
    /\ \E e \in Range(HullEdges(hull)) :
         Abs(rect.best[1] * rect.best[2]) * Dist2(e[1], e[2])
           < BoxHeight(hull, e) * BoxWidth(hull, e) * rect.best[3]

(***************************************************************************)
(* Graphs, as the properties speak of them.                                *)
(***************************************************************************)
\* nodes = vertex ids, edges = the endpoint pairs of the schema's Edges
GraphOf(schema) ==
    [nodes |-> DOMAIN schema["Vertices"],
     edges |-> {Range(schema["Edges"][e].Vertices) : e \in DOMAIN schema["Edges"]}]

RECURSIVE Reach(_, _)
Reach(g, S) ==
    LET T == S \cup {n \in g.nodes : \E m \in S : {m, n} \in g.edges}
    IN IF T = S THEN S ELSE Reach(g, T)

Components(g) == {Reach(g, {v}) : v \in g.nodes}

\* the cycle basis of g is empty: g is a forest
IsForest(g) ==
    /\ \A e \in g.edges : Cardinality(e) = 2
    /\ Cardinality(g.edges) + Cardinality(Components(g)) = Cardinality(g.nodes)

\* the dimension of the cycle space of g
CycleRank(g) == Cardinality(g.edges) + Cardinality(Components(g)) - Cardinality(g.nodes)

\* c is a simple closed walk of g
IsCycleOf(g, c) ==
    /\ Len(c) >= 1
    /\ Len(c) # 2
    /\ Cardinality(Range(c)) = Len(c)
    /\ \A i \in 1..Len(c) : {c[i], c[(i % Len(c)) + 1]} \in g.edges

\* validateSchema has been called on this schema
Validated ==
    \/ pc \in {"validated", "valued"}
    \/ pc \in {"raised", "printed", "traceback"} /\ exc.at # "json.load"

HasBothKeys == "Vertices" \in DOMAIN data /\ "Edges" \in DOMAIN data

(***************************************************************************)
(* C1.  An error raised by one schema of a batch does not keep the schemas *)
(* after it from being processed: when main ends, by returning or by an    *)
(* exception, no schema of the batch is left unprocessed.                  *)
(***************************************************************************)
C1_BatchContinues ==
    pc \in {"exit", "traceback"} => idx >= BatchLen

(***************************************************************************)
(* C2.  A schema whose graph has an empty cycle basis fails with           *)
(* NetworkXNoCycle (the NoClosedCurve kind) and gets no price; for a       *)
(* schema whose graph has a cycle, findPath returns a non-empty list of    *)
(* cycles of the graph.                                                    *)
(***************************************************************************)
C2_NoClosedCurve ==
    Validated /\ HasBothKeys =>
      IF IsForest(GraphOf(data))
      THEN /\ exc = [kind |-> "NetworkXNoCycle", at |-> "validateSchema"]
           /\ pc \in {"raised", "traceback"}
           /\ path = None
           /\ price = None
           /\ out = "none"
      ELSE /\ exc.at # "validateSchema"
           /\ Len(path) > 0
           /\ \A i \in 1..Len(path) : IsCycleOf(GraphOf(data), path[i])

\* a simple path of two edges was refused
C2_Witness ==
    /\ pc = "raised"
    /\ exc.kind = "NetworkXNoCycle"
    /\ Cardinality(GraphOf(data).edges) = 2
    /\ Cardinality(Components(GraphOf(data))) = 1

(***************************************************************************)
(* C4.  validateSchema fails with ValueError (the MalformedSchema kind),   *)
(* before a graph is built, for a schema without its Vertices or its Edges *)
(* and for a schema in which a vertex id or an edge id is written twice,   *)
(* and for no other schema.                                                *)
(***************************************************************************)
WrittenTwice(ms) == \E i, j \in 1..Len(ms) : i < j /\ ms[i][1] = ms[j][1]

Malformed(f) == ~f.hasV \/ ~f.hasE \/ WrittenTwice(f.V) \/ WrittenTwice(f.E)

C4_MalformedSchema ==
    Validated =>
      IF Malformed(file)
      THEN /\ exc = [kind |-> "ValueError", at |-> "validateSchema"]
           /\ path = None
           /\ price = None
      ELSE ~(exc.kind = "ValueError" /\ exc.at = "validateSchema")

\* rotateCalipers has been called on this schema
Quoted ==
    /\ pc \in {"printed", "raised", "traceback"}
    /\ exc = NoExc \/ exc.at = "rotateCalipers"

\* computeValues has been called on this schema
Valued ==
    \/ pc = "valued"
    \/ pc \in {"printed", "raised", "traceback"}
         /\ (exc = NoExc \/ exc.at \in {"computeValues", "rotateCalipers"})

Arcs(schema) ==
    {e \in DOMAIN schema["Edges"] : schema["Edges"][e].Type = "CircularArc"}

\* the vertex an arc ends at: the endpoint that is not ClockwiseFrom
ArcFinish(edge) == CHOOSE v \in Range(edge.Vertices) : v # edge.ClockwiseFrom

(***************************************************************************)
(* C3.  A schema with a CircularArc whose two endpoints have the same      *)
(* coordinates fails with the DegenerateArc kind (in the code: the         *)
(* ZeroDivisionError of the division by the chord length), which is        *)
(* neither MalformedSchema (ValueError) nor NoClosedCurve                  *)
(* (NetworkXNoCycle), and gets no price.                                   *)
(***************************************************************************)
DegenerateArcs(schema) ==
    {e \in Arcs(schema) :
        Position(schema, schema["Edges"][e].Vertices[1])
          = Position(schema, schema["Edges"][e].Vertices[2])}

\* arcs whose chord is longer than the diameter (math.asin's domain error)
OverlongArcs(schema) ==
    {e \in Arcs(schema) :
        LET edge == schema["Edges"][e]
            s == Position(schema, edge.ClockwiseFrom)
            f == Position(schema, ArcFinish(edge))
        IN Dist2(s, f) > 4 * Dist2(edge.Center, s) /\ Dist2(edge.Center, s) > 0}

HullCoords(c) == PathCoords(data, initial_hull[c])

\* as stated: every vertex of the schema
C6_VerticesInHull ==
    Quoted =>
      \A v \in DOMAIN data["Vertices"] :
        \E c \in 1..Len(initial_hull) : InOrOn(Position(data, v), HullCoords(c))

\* as the code has it: every vertex of a cycle, in the hull of that cycle
C6_CycleVerticesInHull ==
    Quoted =>
      /\ Len(initial_hull) = Len(path)
      /\ \A c \in 1..Len(path) :
           \A i \in 1..Len(path[c]) : InOrOn(Position(data, path[c][i]), HullCoords(c))

\* a cycle of four vertices, one of them not a corner of the cycle's hull
C6_Witness ==
    /\ Quoted
    /\ \E c \in 1..Len(path) :
         /\ Len(path[c]) = 4
         /\ Len(initial_hull[c]) = 3
         /\ \E i \in 1..Len(path[c]) : Position(data, path[c][i]) \notin Range(HullCoords(c))

(***************************************************************************)
(* C10.  Every vertex id computeInnerHull puts in a cycle's initial hull   *)
(* is a vertex of that cycle, so every shortest-path query of              *)
(* computeConvexHull is between two vertices of one cycle and has a path;  *)
(* also when two vertices of the schema have the same coordinates.         *)
(***************************************************************************)
C10_HullIdsOnCycle ==
    Quoted =>
      /\ \A c \in 1..Len(initial_hull) : Range(initial_hull[c]) \subseteq Range(path[c])
      /\ \A q \in DOMAIN routes :
           /\ routes[q] # <<>>
           /\ \E c \in 1..Len(path) : {q[1], q[2]} \subseteq Range(path[c])
      /\ exc.kind # "NetworkXNoPath"

(***************************************************************************)
(* C7.  A schema whose graph has two independent cycles gets exactly two   *)
(* hulls, one per cycle of the basis and each built only from that cycle's *)
(* vertices, and rotateCalipers returns MATERIAL_COST times the sum of the *)
(* two hulls' padded minimum-rectangle areas, whatever the order of the    *)
(* cycles.                                                                 *)
(***************************************************************************)
C7_TwoCycles ==
    Quoted /\ CycleRank(GraphOf(data)) = 2 =>
      /\ Len(path) = 2
      /\ Len(initial_hull) = 2
      /\ \A c \in 1..2 : Range(initial_hull[c]) \subseteq Range(path[c])
      /\ exc = NoExc
      /\ Len(final_hull) = 2
      /\ out = "price"
      /\ price = priceOfHulls(final_hull).val
      /\ price = priceOfHulls(reversed(final_hull)).val

(***************************************************************************)
(* C8.  In a schema with a CircularArc, the final hull of a cycle is the   *)
(* Graham-scan hull of the cycle's initial hull points and the four box    *)
(* points of exactly the arcs that are on the shortest path between two    *)
(* cyclically consecutive points of the initial hull and whose start       *)
(* vertex (ClockwiseFrom) comes after their finish vertex in that path; no *)
(* other arc's box points are added, and with no such arc the final hull   *)
(* is the initial hull.                                                    *)
(***************************************************************************)
\* e joins two consecutive vertices of the path p, its start after its finish
StartAfterFinish(e, p) ==
    LET edge == data["Edges"][e]
    IN \E i, j \in 1..Len(p) :
         /\ p[i] = edge.ClockwiseFrom
         /\ p[j] = ArcFinish(edge)
         /\ i = j + 1

\* the arcs whose box points belong in the hull of cycle c
Extruding(c) ==
    LET h == initial_hull[c]
    IN {e \in Arcs(data) :
          \E i \in 1..Len(h) : StartAfterFinish(e, routes[<<h[i], h[(i % Len(h)) + 1]>>])}

BoxPointsOf(X) == UNION {Range(values[e].box_points) : e \in X}

====
